---- MODULE Spec2Model ----
(***************************************************************************)
(* A model of qoi.h: qoi_encode and qoi_decode as state machines, one      *)
(* action per call entry, per loop iteration and per call exit.            *)
(*                                                                         *)
(* Conventions.  A byte buffer is a sequence of numbers in 0..255; the C   *)
(* offset k is element k+1.  A qoi_rgba_t is a record [r, g, b, a]; the    *)
(* union's .v is equal for two pixels exactly when the four bytes are, so  *)
(* px.v == q.v is record equality.  `char' is signed 8-bit with wrapping   *)
(* conversion (the x86/gcc ABI).  All pointers passed to the two functions *)
(* are valid (non-NULL).  unsigned int is 32 bits wide and converts to int *)
(* by wrapping.  Width and height are below 2^31.                          *)
(***************************************************************************)
EXTENDS Integers, Sequences, FiniteSets, TLC

VARIABLES
    pc,       \* position of the caller / of the running function
    desc,     \* the qoi_desc handed to qoi_encode
    data,     \* the pixel buffer handed to qoi_encode
    enc,      \* locals of qoi_encode
    bytes,    \* the encoded buffer: written by qoi_encode, read by qoi_decode
    out_len,  \* *out_len of qoi_encode
    size,     \* size argument of qoi_decode
    ddesc,    \* the qoi_desc handed to qoi_decode
    dec,      \* locals of qoi_decode
    pixels    \* the pixel buffer qoi_decode writes

vars == <<pc, desc, data, enc, bytes, out_len, size, ddesc, dec, pixels>>

----------------------------------------------------------------------------
(* Bounds of the explored inputs *)

MaxWidth  == 3
MaxHeight == 2
MaxPixels == 3
MaxRun    == 63
MaxChunks == 3

----------------------------------------------------------------------------
(* Program constants *)

QOI_OP_INDEX    == 0
QOI_OP_DIFF     == 64
QOI_OP_LUMA     == 128
QOI_OP_RUN      == 192
QOI_OP_RGB      == 254
QOI_OP_RGBA     == 255
QOI_MASK_2      == 192
QOI_HEADER_SIZE == 14
QOI_PADDING_Short == 8 - 1
QOI_PADDING     == 8
QOI_MAGIC       == 1903126886

----------------------------------------------------------------------------
(* C arithmetic *)

RECURSIVE BitAnd(_, _)
BitAnd(x, y) ==
    IF x = 0 \/ y = 0 THEN 0
    ELSE (x % 2) * (y % 2) + 2 * BitAnd(x \div 2, y \div 2)

RECURSIVE BitOr(_, _)
BitOr(x, y) ==
    IF x = 0 THEN y
    ELSE IF y = 0 THEN x
    ELSE (IF x % 2 = 1 \/ y % 2 = 1 THEN 1 ELSE 0)
         + 2 * BitOr(x \div 2, y \div 2)

RECURSIVE Pow2(_)
Pow2(n) == IF n = 0 THEN 1 ELSE 2 * Pow2(n - 1)

Shl(x, n) == x * Pow2(n)
Shr(x, n) == x \div Pow2(n)

\* conversion of an int to unsigned char
ToUChar(x) == x % 256

\* char taken as unsigned (the ARM ABI)
ToChar_Unsigned(x) == x % 256

\* conversion of an int to (signed) char
ToChar(x) == ((x + 128) % 256) - 128

\* 32-bit arithmetic.  An unsigned int u is held as the int it converts to
\* (u for u < 2^31, u - 2^32 above), so every value stays a 32-bit number;
\* sums and products are formed on 16-bit halves and 8-bit quarters.
Lo16(x) == x % 65536
Hi16(x) == (x \div 65536) % 65536

\* the int with the halves hi and lo
Int32(hi, lo) ==
    IF hi >= 32768 THEN (hi - 65536) * 65536 + lo ELSE hi * 65536 + lo

\* the product of two 16-bit numbers as <<high half, low half>>
Mul16(a, b) ==
    LET t1  == a * (b % 256)
        t2  == a * (b \div 256)
        low == (t2 % 256) * 256 + t1
    IN  << (t2 \div 256) + (low \div 65536), low % 65536 >>

\* unsigned x * y modulo 2^32
MulWrap32(x, y) ==
    LET ll == Mul16(Lo16(x), Lo16(y))
        hl == Mul16(Hi16(x), Lo16(y))
        lh == Mul16(Lo16(x), Hi16(y))
    IN  Int32((ll[1] + hl[2] + lh[2]) % 65536, ll[2])

\* unsigned x + y modulo 2^32
AddWrap32(x, y) ==
    LET low == Lo16(x) + Lo16(y)
    IN  Int32((Hi16(x) + Hi16(y) + (low \div 65536)) % 65536, low % 65536)

ZeroPx == [r |-> 0, g |-> 0, b |-> 0, a |-> 0]

\* the hash without the alpha term
QOI_COLOR_HASH_NoAlpha(C) == C.r * 3 + C.g * 5 + C.b * 7

QOI_COLOR_HASH(C) == C.r * 3 + C.g * 5 + C.b * 7 + C.a * 11

\* the four bytes qoi_write_32 appends for v
qoi_write_32(v) ==
    << Shr(v, 24) % 256, Shr(v, 16) % 256, Shr(v, 8) % 256, v % 256 >>

\* the four bytes assembled in little-endian order
qoi_read_32_LittleEndian(buf, p) ==
    BitOr(BitOr(Shl(buf[p + 4], 24), Shl(buf[p + 3], 16)),
          BitOr(Shl(buf[p + 2], 8), buf[p + 1]))

\* the value qoi_read_32 assembles from bytes[p..p+3] (p is a C offset)
qoi_read_32(buf, p) ==
    BitOr(BitOr(Shl(buf[p + 1], 24), Shl(buf[p + 2], 16)),
          BitOr(Shl(buf[p + 3], 8), buf[p + 4]))

----------------------------------------------------------------------------
(* qoi_encode *)

\* the choice on a miss with the alpha test made last, after the DIFF and
\* LUMA tests
EncodeMiss_AlphaLast(px, px_prev) ==
    LET vr   == ToChar(px.r - px_prev.r)
        vg   == ToChar(px.g - px_prev.g)
        vb   == ToChar(px.b - px_prev.b)
        vg_r == ToChar(vr - vg)
        vg_b == ToChar(vb - vg)
    IN  IF /\ vr > -3 /\ vr < 2
           /\ vg > -3 /\ vg < 2
           /\ vb > -3 /\ vb < 2
        THEN << ToUChar(BitOr(BitOr(BitOr(QOI_OP_DIFF, Shl(vr + 2, 4)),
                                    Shl(vg + 2, 2)), vb + 2)) >>
        ELSE IF /\ vg_r > -9  /\ vg_r < 8
                /\ vg   > -33 /\ vg   < 32
                /\ vg_b > -9  /\ vg_b < 8
        THEN << ToUChar(BitOr(QOI_OP_LUMA, vg + 32)),
                ToUChar(BitOr(Shl(vg_r + 8, 4), vg_b + 8)) >>
        ELSE IF px.a = px_prev.a
        THEN << QOI_OP_RGB, px.r, px.g, px.b >>
        ELSE << QOI_OP_RGBA, px.r, px.g, px.b, px.a >>

\* the bytes written for a pixel px that differs from px_prev and misses
\* the index (lines 429-465)
EncodeMiss(px, px_prev) ==
    IF px.a = px_prev.a
    THEN LET vr   == ToChar(px.r - px_prev.r)
             vg   == ToChar(px.g - px_prev.g)
             vb   == ToChar(px.b - px_prev.b)
             vg_r == ToChar(vr - vg)
             vg_b == ToChar(vb - vg)
         IN  IF /\ vr > -3 /\ vr < 2
                /\ vg > -3 /\ vg < 2
                /\ vb > -3 /\ vb < 2
             THEN << ToUChar(BitOr(BitOr(BitOr(QOI_OP_DIFF, Shl(vr + 2, 4)),
                                         Shl(vg + 2, 2)), vb + 2)) >>
             ELSE IF /\ vg_r > -9  /\ vg_r < 8
                     /\ vg   > -33 /\ vg   < 32
                     /\ vg_b > -9  /\ vg_b < 8
             THEN << ToUChar(BitOr(QOI_OP_LUMA, vg + 32)),
                     ToUChar(BitOr(Shl(vg_r + 8, 4), vg_b + 8)) >>
             ELSE << QOI_OP_RGB, px.r, px.g, px.b >>
    ELSE << QOI_OP_RGBA, px.r, px.g, px.b, px.a >>

\* the bytes written for a pixel px that differs from px_prev (lines 421-466)
EncodeOp(px, px_prev, index) ==
    LET index_pos == QOI_COLOR_HASH(px) % 64
    IN  IF index[index_pos] = px
        THEN << ToUChar(BitOr(QOI_OP_INDEX, index_pos)) >>
        ELSE EncodeMiss(px, px_prev)

\* the run chunk without the bias of -1
RunChunk_NoBias(run) == ToUChar(BitOr(QOI_OP_RUN, run))

\* the run chunk written at lines 411 and 417
RunChunk(run) == ToUChar(BitOr(QOI_OP_RUN, run - 1))

\* the 3-channel read with the blue byte taken from the green offset
ReadPixel_WrongOffset(buf, px_pos, channels, px) ==
    IF channels = 4
    THEN [r |-> buf[px_pos + 1], g |-> buf[px_pos + 2],
          b |-> buf[px_pos + 3], a |-> buf[px_pos + 4]]
    ELSE [px EXCEPT !.r = buf[px_pos + 1],
                    !.g = buf[px_pos + 2],
                    !.b = buf[px_pos + 2]]

\* the pixel read at lines 399-406
ReadPixel(buf, px_pos, channels, px) ==
    IF channels = 4
    THEN [r |-> buf[px_pos + 1], g |-> buf[px_pos + 2],
          b |-> buf[px_pos + 3], a |-> buf[px_pos + 4]]
    ELSE [px EXCEPT !.r = buf[px_pos + 1],
                    !.g = buf[px_pos + 2],
                    !.b = buf[px_pos + 3]]

\* the descriptor test of lines 360-367
EncodeDescInvalid(d) ==
    \/ d.width = 0 \/ d.height = 0
    \/ d.channels < 3 \/ d.channels > 4
    \/ d.colorspace > 2

\* max_size with one byte too few per pixel: no room for the chunk tags
MaxSize_NoTag(d) ==
    AddWrap32(MulWrap32(MulWrap32(d.width, d.height), d.channels),
              QOI_HEADER_SIZE + QOI_PADDING)

\* max_size of lines 369-371
MaxSize(d) ==
    AddWrap32(MulWrap32(MulWrap32(d.width, d.height), d.channels + 1),
              QOI_HEADER_SIZE + QOI_PADDING)

\* px_len of line 394 (and of line 510, with the decoder's channels)
PxLen(d, channels) ==
    MulWrap32(MulWrap32(d.width, d.height), channels)

\* the run end test with the limit at the largest 6-bit value plus one
RunEnds_SixBits(run, px_pos, px_end) == run = 64 \/ px_pos = px_end

\* the run end test without the test for the last pixel
RunEnds_NoLastPixel(run, px_pos, px_end) == run = 62

\* the test of line 410 that ends a run
RunEnds(run, px_pos, px_end) == run = 62 \/ px_pos = px_end

\* lines 399-468: the loop body on the record e of locals; the new locals
\* and the bytes written
EncodeStep(buf, e) ==
    LET px        == ReadPixel(buf, e.px_pos, e.channels, e.px)
        index_pos == QOI_COLOR_HASH(px) % 64
    IN  IF px = e.px_prev
        THEN LET run == e.run + 1
             IN  IF RunEnds(run, e.px_pos, e.px_end)
                 THEN [enc |-> [e EXCEPT !.px = px, !.px_prev = px,
                                         !.run = 0,
                                         !.p = e.p + 1,
                                         !.px_pos = e.px_pos + e.channels],
                       out |-> << RunChunk(run) >>]
                 ELSE [enc |-> [e EXCEPT !.px = px, !.px_prev = px,
                                         !.run = run,
                                         !.px_pos = e.px_pos + e.channels],
                       out |-> << >>]
        ELSE LET flush == IF e.run > 0 THEN << RunChunk(e.run) >>
                          ELSE << >>
                 chunk == EncodeOp(px, e.px_prev, e.index)
             IN  [enc |-> [e EXCEPT
                             !.px = px, !.px_prev = px, !.run = 0,
                             !.p = e.p + Len(flush) + Len(chunk),
                             !.px_pos = e.px_pos + e.channels,
                             !.index = IF e.index[index_pos] = px
                                       THEN e.index
                                       ELSE [e.index EXCEPT
                                               ![index_pos] = px]],
                   out |-> flush \o chunk]

\* the locals of qoi_encode when the loop is entered (lines 369-398); the
\* subtraction of line 395 leaves the int range only for a px_len below
\* zero, with which px_end is never read
EncStart(d) ==
    [max_size |-> MaxSize(d),
     p        |-> QOI_HEADER_SIZE,
     run      |-> 0,
     px_prev  |-> ZeroPx,
     px       |-> ZeroPx,
     px_len   |-> PxLen(d, d.channels),
     px_end   |-> AddWrap32(PxLen(d, d.channels), -d.channels),
     channels |-> d.channels,
     px_pos   |-> 0,
     index    |-> [i \in 0..63 |-> ZeroPx]]

EncIdle ==
    [max_size |-> 0, p |-> 0, run |-> 0, px_prev |-> ZeroPx, px |-> ZeroPx,
     px_len |-> 0, px_end |-> 0, channels |-> 0, px_pos |-> 0,
     index |-> [i \in 0..63 |-> ZeroPx]]

\* lines 359-398: parameter check, allocation, header, initialisation
qoi_encode_begin ==
    /\ pc = "encode"
    /\ IF EncodeDescInvalid(desc)
       THEN /\ pc' = "enc_invalid"
            /\ UNCHANGED <<enc, bytes>>
       ELSE \E alloc_ok \in BOOLEAN :
              IF ~alloc_ok
              THEN /\ pc' = "enc_nomem"
                   /\ enc' = [enc EXCEPT !.max_size = MaxSize(desc)]
                   /\ UNCHANGED bytes
              ELSE /\ pc' = "enc_loop"
                   /\ bytes' = qoi_write_32(QOI_MAGIC)
                                 \o qoi_write_32(desc.width)
                                 \o qoi_write_32(desc.height)
                                 \o << desc.channels, desc.colorspace >>
                   /\ enc' = EncStart(desc)
    /\ UNCHANGED <<desc, data, out_len, size, ddesc, dec, pixels>>

\* lines 398-469: one iteration of the pixel loop
qoi_encode_pixel ==
    /\ pc = "enc_loop"
    /\ enc.px_pos < enc.px_len
    /\ LET st == EncodeStep(data, enc)
       IN  /\ bytes' = bytes \o st.out
           /\ enc' = st.enc
    /\ UNCHANGED <<pc, desc, data, out_len, size, ddesc, dec, pixels>>

\* lines 471-476: padding, *out_len, return
qoi_encode_end ==
    /\ pc = "enc_loop"
    /\ ~(enc.px_pos < enc.px_len)
    /\ bytes' = bytes \o [i \in 1..QOI_PADDING |-> 0]
    /\ enc' = [enc EXCEPT !.p = enc.p + QOI_PADDING]
    /\ out_len' = enc.p + QOI_PADDING
    /\ size' = enc.p + QOI_PADDING
    /\ pc' = "decode"
    /\ UNCHANGED <<desc, data, ddesc, dec, pixels>>

----------------------------------------------------------------------------
(* qoi_decode *)

DecIdle ==
    [channels |-> 0, p |-> 0, px_len |-> 0, px |-> ZeroPx,
     index |-> [i \in 0..63 |-> ZeroPx], run |-> 0, chunks_len |-> 0,
     px_pos |-> 0]

\* the argument test of lines 480-486
DecodeArgsInvalid(channels, sz) ==
    \/ (channels # 0 /\ channels # 3 /\ channels # 4)
    \/ sz < QOI_HEADER_SIZE + QOI_PADDING

\* the descriptor qoi_decode stores at lines 492-495
ReadHeader(buf) ==
    [width      |-> qoi_read_32(buf, 4),
     height     |-> qoi_read_32(buf, 8),
     channels   |-> buf[13],
     colorspace |-> buf[14]]

\* the header test of lines 497-504
DecodeHeaderInvalid(d, header_magic) ==
    \/ d.width = 0 \/ d.height = 0
    \/ d.channels < 3 \/ d.channels > 4
    \/ d.colorspace > 2
    \/ header_magic # QOI_MAGIC

\* chunks_len without the padding held back
ChunksLen_NoPadding(sz) == sz

\* chunks_len of line 520
ChunksLen(sz) == sz - QOI_PADDING

\* lines 526-558: read one chunk at offset p; the new p, px, run and index
DecodeChunk(buf, p, px, run, index) ==
    LET b1 == buf[p + 1]
        r1 == IF b1 = QOI_OP_RGB
              THEN [p   |-> p + 4,
                    px  |-> [px EXCEPT !.r = buf[p + 2], !.g = buf[p + 3],
                                       !.b = buf[p + 4]],
                    run |-> run]
              ELSE IF b1 = QOI_OP_RGBA
              THEN [p   |-> p + 5,
                    px  |-> [r |-> buf[p + 2], g |-> buf[p + 3],
                             b |-> buf[p + 4], a |-> buf[p + 5]],
                    run |-> run]
              ELSE IF BitAnd(b1, QOI_MASK_2) = QOI_OP_INDEX
              THEN [p |-> p + 1, px |-> index[b1], run |-> run]
              ELSE IF BitAnd(b1, QOI_MASK_2) = QOI_OP_DIFF
              THEN [p   |-> p + 1,
                    px  |-> [px EXCEPT
                       !.r = ToUChar(px.r + BitAnd(Shr(b1, 4), 3) - 2),
                       !.g = ToUChar(px.g + BitAnd(Shr(b1, 2), 3) - 2),
                       !.b = ToUChar(px.b + BitAnd(b1, 3) - 2)],
                    run |-> run]
              ELSE IF BitAnd(b1, QOI_MASK_2) = QOI_OP_LUMA
              THEN LET b2 == buf[p + 2]
                       vg == BitAnd(b1, 63) - 32
                   IN  [p   |-> p + 2,
                        px  |-> [px EXCEPT
                           !.r = ToUChar(px.r + vg - 8
                                         + BitAnd(Shr(b2, 4), 15)),
                           !.g = ToUChar(px.g + vg),
                           !.b = ToUChar(px.b + vg - 8 + BitAnd(b2, 15))],
                        run |-> run]
              ELSE IF BitAnd(b1, QOI_MASK_2) = QOI_OP_RUN
              THEN [p |-> p + 1, px |-> px, run |-> BitAnd(b1, 63)]
              ELSE [p |-> p + 1, px |-> px, run |-> run]
    IN  [p     |-> r1.p,
         px    |-> r1.px,
         run   |-> r1.run,
         index |-> [index EXCEPT ![QOI_COLOR_HASH(r1.px) % 64] = r1.px]]

\* the loop body with the pixel cleared once the chunk stream is exhausted
DecodeStep_ClearOnEnd(buf, d) ==
    IF d.run > 0
    THEN [p |-> d.p, px |-> d.px, run |-> d.run - 1, index |-> d.index]
    ELSE IF d.p < d.chunks_len
    THEN DecodeChunk(buf, d.p, d.px, d.run, d.index)
    ELSE [p |-> d.p, px |-> ZeroPx, run |-> d.run, index |-> d.index]

\* the loop body with the run test off by one: a run count of 1 reads a
\* chunk
DecodeStep_RunOffByOne(buf, d) ==
    IF d.run > 1
    THEN [p |-> d.p, px |-> d.px, run |-> d.run - 1, index |-> d.index]
    ELSE IF d.p < d.chunks_len
    THEN DecodeChunk(buf, d.p, d.px, d.run, d.index)
    ELSE [p |-> d.p, px |-> d.px, run |-> d.run, index |-> d.index]

\* lines 522-559: the part of a loop iteration that updates the predictor;
\* d is the record of locals
DecodeStep(buf, d) ==
    IF d.run > 0
    THEN [p |-> d.p, px |-> d.px, run |-> d.run - 1, index |-> d.index]
    ELSE IF d.p < d.chunks_len
    THEN DecodeChunk(buf, d.p, d.px, d.run, d.index)
    ELSE [p |-> d.p, px |-> d.px, run |-> d.run, index |-> d.index]

\* the bytes stored for px at lines 561-568
WritePixel(px, channels) ==
    IF channels = 4 THEN << px.r, px.g, px.b, px.a >>
    ELSE << px.r, px.g, px.b >>

\* the values of the channels argument the callers try
OutChannels == {0, 2, 3, 4, 5}

\* lines 479-520: argument check, header, allocation, initialisation
qoi_decode_begin ==
    /\ pc = "decode"
    /\ \E channels \in OutChannels :
         IF DecodeArgsInvalid(channels, size)
         THEN /\ pc' = "dec_invalid"
              /\ dec' = [dec EXCEPT !.channels = channels]
              /\ UNCHANGED <<ddesc, pixels>>
         ELSE LET header_magic == qoi_read_32(bytes, 0)
                  d            == ReadHeader(bytes)
              IN  /\ ddesc' = d
                  /\ IF DecodeHeaderInvalid(d, header_magic)
                     THEN /\ pc' = "dec_badheader"
                          /\ dec' = [dec EXCEPT !.channels = channels,
                                                !.p = QOI_HEADER_SIZE]
                          /\ UNCHANGED pixels
                     ELSE LET ch == IF channels = 0 THEN d.channels
                                    ELSE channels
                          IN  \E alloc_ok \in BOOLEAN :
                                IF ~alloc_ok
                                THEN /\ pc' = "dec_nomem"
                                     /\ dec' = [dec EXCEPT
                                          !.channels = ch,
                                          !.p = QOI_HEADER_SIZE,
                                          !.px_len = PxLen(d, ch)]
                                     /\ UNCHANGED pixels
                                ELSE /\ pc' = "dec_loop"
                                     /\ pixels' = << >>
                                     /\ dec' =
                                          [channels   |-> ch,
                                           p          |-> QOI_HEADER_SIZE,
                                           px_len     |-> PxLen(d, ch),
                                           px         |-> ZeroPx,
                                           index      |-> [i \in 0..63 |->
                                                             ZeroPx],
                                           run        |-> 0,
                                           chunks_len |-> ChunksLen(size),
                                           px_pos     |-> 0]
    /\ UNCHANGED <<desc, data, enc, bytes, out_len, size>>

\* lines 521-569: one iteration of the pixel loop
qoi_decode_pixel ==
    /\ pc = "dec_loop"
    /\ dec.px_pos < dec.px_len
    /\ LET st == DecodeStep(bytes, dec)
       IN  /\ dec' = [dec EXCEPT !.p = st.p, !.px = st.px, !.run = st.run,
                                 !.index = st.index,
                                 !.px_pos = dec.px_pos + dec.channels]
           /\ pixels' = pixels \o WritePixel(st.px, dec.channels)
    /\ UNCHANGED <<pc, desc, data, enc, bytes, out_len, size, ddesc>>

\* lines 569-572: the loop ends, the buffer is returned
qoi_decode_end ==
    /\ pc = "dec_loop"
    /\ ~(dec.px_pos < dec.px_len)
    /\ pc' = "done"
    /\ UNCHANGED <<desc, data, enc, bytes, out_len, size, ddesc, dec, pixels>>

----------------------------------------------------------------------------
(* Inputs *)

\* 4-channel pixels: transparent black, an opaque base colour, its DIFF
\* and LUMA neighbours, opaque black and white, and a second pixel of hash 0
Palette4 ==
    { <<0, 0, 0, 0>>, <<40, 40, 40, 255>>, <<38, 38, 38, 255>>,
      <<41, 41, 41, 255>>, <<0, 8, 0, 255>>, <<0, 0, 0, 255>>,
      <<255, 255, 255, 255>>, <<64, 0, 0, 0>> }

\* the same colours without alpha, and the colour (10, 20, 30)
Palette3 ==
    { <<0, 0, 0>>, <<40, 40, 40>>, <<38, 38, 38>>, <<41, 41, 41>>,
      <<0, 8, 0>>, <<255, 255, 255>>, <<64, 0, 0>>, <<10, 20, 30>> }

Palette(ch) == IF ch = 4 THEN Palette4 ELSE Palette3

\* the byte buffer of a sequence of pixels
Flatten(img, ch) ==
    [k \in 1..(Len(img) * ch) |-> img[((k - 1) \div ch) + 1][((k - 1) % ch) + 1]]

Zeros(n) == [i \in 1..n |-> 0]

\* the descriptor of the caller of qoi_decode before the call
DescBefore == [width |-> 9, height |-> 9, channels |-> 9, colorspace |-> 9]

InitCommon ==
    /\ enc = EncIdle
    /\ dec = DecIdle
    /\ ddesc = DescBefore
    /\ pixels = << >>

InitEncode ==
    /\ InitCommon
    /\ pc = "encode"
    /\ bytes = << >>
    /\ out_len = 0
    /\ size = 0

\* run lengths around one full run chunk and around two
RunLens == ((MaxRun - 3)..MaxRun) \cup ((2 * MaxRun - 3)..(2 * MaxRun - 1))

\* the palette pixel of grey level v: transparent black for 0, else opaque
RunColour(ch, v) ==
    IF ch = 3 THEN <<v, v, v>>
    ELSE IF v = 0 THEN <<0, 0, 0, 0>> ELSE <<v, v, v, 255>>

\* a small image of arbitrary palette pixels, or an invalid descriptor
SmallImage ==
    \E w \in 0..MaxWidth, h \in 0..MaxHeight, ch \in 2..5, cs \in 0..3 :
         /\ w * h <= MaxPixels
         /\ desc = [width |-> w, height |-> h, channels |-> ch,
                    colorspace |-> cs]
         /\ IF EncodeDescInvalid(desc)
            THEN data = Zeros(w * h * ch)
            ELSE \E img \in [1..(w * h) -> Palette(ch)] :
                    data = Flatten(img, ch)

\* a one-row image holding a long run of one pixel
RunImage ==
    \E ch \in {3, 4}, k \in RunLens :
    \E lead \in {<< >>, <<RunColour(ch, 40)>>},
       y \in {RunColour(ch, 0), RunColour(ch, 40)},
       tail \in {<< >>, <<RunColour(ch, 38)>>} :
         LET img == lead \o [i \in 1..k |-> y] \o tail
         IN  /\ desc = [width |-> Len(img), height |-> 1, channels |-> ch,
                        colorspace |-> 0]
             /\ data = Flatten(img, ch)

\* qoi_encode is called, and qoi_decode is then called on its output
Init ==
    /\ InitEncode
    /\ (SmallImage \/ RunImage)

Next ==
    \/ qoi_encode_begin
    \/ qoi_encode_pixel
    \/ qoi_encode_end
    \/ qoi_decode_begin
    \/ qoi_decode_pixel
    \/ qoi_decode_end

Spec == Init /\ [][Next]_vars

\* qoi_encode is called on a three-pixel RGBA row <<a, b, c>> whose last
\* pixel is b plus a delta at or next to the limits of the DIFF and LUMA
\* ranges (with and without an alpha change), or an earlier pixel again
DiffDeltas == {<<dr, dg, db>> : dr \in {-3, -2, 0, 1, 2},
                                dg \in {-3, -2, 0, 1, 2},
                                db \in {-3, -2, 0, 1, 2}}

LumaDeltas == {<<dg + er, dg, dg + eb>> :
                  dg \in {-128, -33, -32, 0, 31, 32, 127},
                  er \in {-9, -8, 0, 7, 8},
                  eb \in {-9, -8, 0, 7, 8}}

AddDelta(q, d, da) ==
    << (q[1] + d[1]) % 256, (q[2] + d[2]) % 256, (q[3] + d[3]) % 256,
       (q[4] + da) % 256 >>

ChoiceImage ==
    \E a \in {<<0, 0, 0, 0>>, <<64, 0, 0, 0>>},
       b \in {<<0, 0, 0, 255>>, <<255, 255, 255, 255>>, <<128, 1, 254, 0>>} :
       /\ desc = [width |-> 3, height |-> 1, channels |-> 4, colorspace |-> 0]
       /\ \/ \E d \in DiffDeltas \cup LumaDeltas, da \in {0, 1} :
                data = Flatten(<<a, b, AddDelta(b, d, da)>>, 4)
          \/ data = Flatten(<<a, b, a>>, 4)
          \/ data = Flatten(<<a, b, <<0, 0, 0, 0>> >>, 4)

InitChoice ==
    /\ InitEncode
    /\ ChoiceImage

NextEnc ==
    \/ qoi_encode_begin
    \/ qoi_encode_pixel
    \/ qoi_encode_end

SpecChoice == InitChoice /\ [][NextEnc]_vars

\* qoi_decode is called on an arbitrary buffer: any header with an empty
\* chunk stream, a buffer one byte too short, or a valid header followed by
\* arbitrary chunk bytes and eight final bytes
ChunkAlphabet == {0, 13, 64, 127, 128, 194, 254, 255}

ChunkStreams ==
    UNION { [1..n -> ChunkAlphabet] : n \in 0..MaxChunks }

Header(magic, w, h, ch, cs) ==
    qoi_write_32(magic) \o qoi_write_32(w) \o qoi_write_32(h) \o <<ch, cs>>

InitDec ==
    /\ InitCommon
    /\ pc = "decode"
    /\ desc = [width |-> 0, height |-> 0, channels |-> 0, colorspace |-> 0]
    /\ data = << >>
    /\ out_len = 0
    /\ \/ \E magic \in {QOI_MAGIC, QOI_MAGIC + 1}, w \in 0..2, h \in 0..2,
             ch \in 2..5, cs \in 0..3, pad \in {QOI_PADDING - 1, QOI_PADDING} :
            bytes = Header(magic, w, h, ch, cs) \o Zeros(pad)
       \/ \E w \in 1..2, ch \in 3..4, chunks \in ChunkStreams,
             last \in {0, 255} :
            bytes = Header(QOI_MAGIC, w, 2, ch, 0) \o chunks
                      \o [i \in 1..QOI_PADDING |-> last]
    /\ size = Len(bytes)

NextDec ==
    \/ qoi_decode_begin
    \/ qoi_decode_pixel
    \/ qoi_decode_end

SpecDec == InitDec /\ [][NextDec]_vars

\* Descriptors of large images: qoi_encode computes its sizes and enters the
\* loop; the pixel buffer of such an image is not held, and the loop is not
\* run.
BigDims ==
    {0, 1, 2, 3, 255, 256, 32768, 46341, 65535, 65536, 65537,
     1288490189, 1431655766, 2147483647}

InitSize ==
    /\ InitEncode
    /\ \E w \in BigDims, h \in BigDims, ch \in {3, 4} :
         desc = [width |-> w, height |-> h, channels |-> ch, colorspace |-> 0]
    /\ data = << >>

SpecSize == InitSize /\ [][qoi_encode_begin]_vars

----------------------------------------------------------------------------
(* Properties *)

\* qoi_encode has returned a buffer
EncodeDone ==
    pc \in {"decode", "dec_loop", "done", "dec_invalid", "dec_badheader",
            "dec_nomem"}

\* C1: round trip with 4 channels.  For a 4-channel descriptor with
\* colorspace 0 or 1, decoding the encoder's output into 4 channels never
\* fails on its arguments or header, and once it has returned the decoded
\* buffer equals the input buffer byte for byte and the descriptor it
\* filled equals the encoder's.
C1_RoundTrip4 ==
    (desc.channels = 4 /\ desc.colorspace \in {0, 1} /\ dec.channels = 4) =>
        /\ pc \notin {"dec_invalid", "dec_badheader"}
        /\ pc = "done" => (pixels = data /\ ddesc = desc)

C1_Witness ==
    /\ pc = "done"
    /\ desc.channels = 4 /\ dec.channels = 4
    /\ desc.width * desc.height = 3
    /\ data[4] # data[8]
    /\ pixels = data /\ ddesc = desc

\* C2: round trip with 3 channels.  For a 3-channel descriptor, decoding
\* the encoder's output into 3 channels never fails on its arguments or
\* header, and once it has returned the decoded buffer equals the input
\* buffer byte for byte and the descriptor it filled equals the encoder's.
C2_RoundTrip3 ==
    (desc.channels = 3 /\ dec.channels = 3) =>
        /\ pc \notin {"dec_invalid", "dec_badheader"}
        /\ pc = "done" => (pixels = data /\ ddesc = desc)

C2_Witness ==
    /\ pc = "done"
    /\ desc.channels = 3 /\ dec.channels = 3
    /\ desc.width * desc.height = 3
    /\ data[3] # data[6] /\ data[2] # data[3]
    /\ pixels = data /\ ddesc = desc

\* C3: channel widening.  A 3-channel image decoded into 4 channels has
\* alpha 255 in every pixel.
C3_WideningAlpha255 ==
    (pc = "done" /\ desc.channels = 3 /\ dec.channels = 4) =>
        \A i \in 1..(desc.width * desc.height) : pixels[4 * i] = 255

\* C4: with 3-channel input the encoder's pixel has alpha 255, and a first
\* pixel that is not black is written as the 5-byte chunk FF r g b FF.
C4_FirstPixelRGBA ==
    (/\ pc \in {"enc_loop", "decode"}
     /\ desc.channels = 3
     /\ enc.px_pos >= 3
     /\ <<data[1], data[2], data[3]>> # <<0, 0, 0>>) =>
        /\ enc.px.a = 255
        /\ Len(bytes) >= 19
        /\ SubSeq(bytes, 15, 19) = <<255, data[1], data[2], data[3], 255>>

\* no eight consecutive zero bytes in s
NoZeroRun8(s) ==
    \A i \in 1..(Len(s) - 7) : \E j \in 0..7 : s[i + j] # 0

\* the offset at which the chunks that cover n pixels end, for chunks
\* starting at offset p of buf, by the chunk lengths of the format table
RECURSIVE ChunkStreamEnd(_, _, _)
ChunkStreamEnd(buf, p, n) ==
    IF n <= 0 \/ p >= Len(buf) THEN p
    ELSE LET b == buf[p + 1]
         IN  IF b = 255 THEN ChunkStreamEnd(buf, p + 5, n - 1)
             ELSE IF b = 254 THEN ChunkStreamEnd(buf, p + 4, n - 1)
             ELSE IF b >= 192 THEN ChunkStreamEnd(buf, p + 1, n - (b - 191))
             ELSE IF b >= 128 THEN ChunkStreamEnd(buf, p + 2, n - 1)
             ELSE ChunkStreamEnd(buf, p + 1, n - 1)

\* C5: trailer.  What the encoder returns is the 14-byte header, the
\* chunks of the width*height pixels, and then exactly eight bytes, all
\* 0x00; header and chunks hold no eight consecutive zero bytes, at any
\* point of the loop and in the returned buffer.
C5_Trailer ==
    /\ pc = "enc_loop" => NoZeroRun8(bytes)
    /\ EncodeDone =>
         LET e == ChunkStreamEnd(bytes, 14, desc.width * desc.height)
         IN  /\ out_len = Len(bytes)
             /\ out_len = e + 8
             /\ \A i \in (e + 1)..out_len : bytes[i] = 0
             /\ NoZeroRun8(SubSeq(bytes, 1, e))

C5_Witness ==
    /\ pc = "decode"
    /\ out_len > 23
    /\ bytes[out_len - 8] = 0
    /\ \A i \in (out_len - 7)..out_len : bytes[i] = 0

\* an iteration of the encoder loop writes a run chunk: it leaves a run
\* because the pixel differs, or it sees a repeated pixel and writes
C6_RunWritten ==
    /\ pc = "enc_loop"
    /\ enc'.px_pos > enc.px_pos
    /\ Len(bytes') > Len(bytes)
    /\ (enc.run > 0 \/ enc'.px_prev = enc.px_prev)

\* C6: run bounds.  Every run chunk the encoder writes is a byte
\* 0xC0 | k with k in 0..61, never 0xFE or 0xFF.
C6_RunBounds ==
    [][C6_RunWritten => bytes'[Len(bytes) + 1] \in 192..253]_vars

C6_Witness ==
    /\ pc = "decode"
    /\ desc.width >= 63
    /\ bytes[15] = 253
    /\ bytes[16] \in 192..253

\* C7: qoi_encode returns NULL for its parameters exactly when width or
\* height is 0, channels is not 3 or 4, or colorspace exceeds 1.
C7_EncodeErrors ==
    pc # "encode" =>
        ((\/ desc.width = 0 \/ desc.height = 0
          \/ desc.channels \notin {3, 4}
          \/ desc.colorspace > 1)
         <=> pc = "enc_invalid")

\* C8: qoi_decode fails on its input exactly when size < 22, the magic is
\* not 'qoif', header width or height is 0, header channels is not 3 or 4,
\* header colorspace exceeds 1, or the requested channels is not 0, 3 or 4.
C8_DecodeErrors ==
    pc # "decode" =>
        ((\/ size < 22
          \/ SubSeq(bytes, 1, 4) # <<113, 111, 105, 102>>
          \/ SubSeq(bytes, 5, 8) = <<0, 0, 0, 0>>
          \/ SubSeq(bytes, 9, 12) = <<0, 0, 0, 0>>
          \/ bytes[13] \notin {3, 4}
          \/ bytes[14] > 1
          \/ dec.channels \notin {0, 3, 4})
         <=> pc \in {"dec_invalid", "dec_badheader"})

\* the chunk stream is exhausted while pixels are still owed
C9_Exhausted ==
    pc = "dec_loop" /\ dec.p >= size - 8 /\ dec.px_pos < dec.px_len

\* C9: truncation tolerance.  Once the cursor has reached size-8 the
\* decoder does not fail: each further iteration leaves cursor and px as
\* they are and stores px as the next output pixel, and the call returns a
\* buffer of width*height pixels.
C9_Truncation ==
    /\ [](pc = "done" =>
            Len(pixels) = ddesc.width * ddesc.height * dec.channels)
    /\ [][C9_Exhausted =>
            /\ pc' = "dec_loop"
            /\ dec'.p = dec.p
            /\ dec'.px = dec.px
            /\ pixels' = pixels \o
                 (IF dec.channels = 4
                  THEN <<dec.px.r, dec.px.g, dec.px.b, dec.px.a>>
                  ELSE <<dec.px.r, dec.px.g, dec.px.b>>)]_vars

C9_Witness ==
    /\ pc = "done"
    /\ size = 23
    /\ bytes[15] = 255 /\ bytes[16] = 255
    /\ ddesc.width = 2 /\ ddesc.height = 2 /\ dec.channels = 4
    /\ pixels = [i \in 1..16 |-> 255]

\* the difference x - y modulo 256 read as a signed 8-bit number
C10_Delta(x, y) ==
    LET m == (x - y) % 256 IN IF m >= 128 THEN m - 256 ELSE m

\* the chunk form the choice function names for px after prev
C10_Choice(px, prev, index) ==
    LET dr == C10_Delta(px.r, prev.r)
        dg == C10_Delta(px.g, prev.g)
        db == C10_Delta(px.b, prev.b)
    IN  IF index[QOI_COLOR_HASH(px) % 64] = px THEN "INDEX"
        ELSE IF px.a # prev.a THEN "RGBA"
        ELSE IF dr \in -2..1 /\ dg \in -2..1 /\ db \in -2..1 THEN "DIFF"
        ELSE IF dg \in -32..31 /\ (dr - dg) \in -8..7 /\ (db - dg) \in -8..7
        THEN "LUMA"
        ELSE "RGB"

\* the chunk form of a chunk, by its tag and length
C10_Form(chunk) ==
    IF chunk = << >> THEN "NONE"
    ELSE IF chunk[1] = 255 /\ Len(chunk) = 5 THEN "RGBA"
    ELSE IF chunk[1] = 254 /\ Len(chunk) = 4 THEN "RGB"
    ELSE IF chunk[1] \in 0..63 /\ Len(chunk) = 1 THEN "INDEX"
    ELSE IF chunk[1] \in 64..127 /\ Len(chunk) = 1 THEN "DIFF"
    ELSE IF chunk[1] \in 128..191 /\ Len(chunk) = 2 THEN "LUMA"
    ELSE "OTHER"

\* C10: encoder choice function.  In every iteration whose pixel differs
\* from the previous one, the chunk written (after the flush of a pending
\* run) has the form the choice function names: INDEX with the slot of the
\* pixel on an index hit, else RGBA on an alpha change, else DIFF, LUMA or
\* RGB by the ranges of the signed wrapped deltas.
C10_EncoderChoice ==
    [][(/\ pc = "enc_loop"
        /\ enc'.px_pos > enc.px_pos
        /\ enc'.px_prev # enc.px_prev) =>
          LET px    == enc'.px_prev
              first == Len(bytes) + (IF enc.run > 0 THEN 1 ELSE 0) + 1
              chunk == SubSeq(bytes', first, Len(bytes'))
              form  == C10_Choice(px, enc.px_prev, enc.index)
          IN  /\ C10_Form(chunk) = form
              /\ form = "INDEX" => chunk[1] = QOI_COLOR_HASH(px) % 64]_vars

\* the pixel at the LUMA edge dg = -32, dr-dg = db-dg = -8 after opaque
\* black has been written as the chunk 80 00
C10_Witness ==
    /\ pc = "decode"
    /\ SubSeq(data, 5, 12) = <<0, 0, 0, 255, 216, 224, 216, 255>>
    /\ SubSeq(bytes, out_len - 9, out_len - 8) = <<128, 0>>

\* the chunk written for the pixel of an encoder step, after the flush of
\* a pending run
C11_Chunk ==
    SubSeq(bytes', Len(bytes) + (IF enc.run > 0 THEN 1 ELSE 0) + 1,
           Len(bytes'))

\* C11 as stated: alpha forces RGBA.  In every iteration whose pixel has
\* an alpha different from the previous pixel's alpha, the chunk written
\* is the RGBA chunk FF r g b a of that pixel.
C11_AlphaForcesRGBA ==
    [][(/\ pc = "enc_loop"
        /\ enc'.px_pos > enc.px_pos
        /\ enc'.px_prev.a # enc.px_prev.a) =>
          LET px == enc'.px_prev
          IN  C11_Chunk = <<255, px.r, px.g, px.b, px.a>>]_vars

\* C11 amended: alpha forces RGBA on an index miss.  In every iteration
\* whose pixel has an alpha different from the previous pixel's alpha and
\* is not the pixel held in its index slot, the chunk written is the RGBA
\* chunk FF r g b a of that pixel; when the slot holds the pixel the chunk
\* is the one-byte INDEX chunk of the slot.
C11_AlphaForcesRGBAOnMiss ==
    [][(/\ pc = "enc_loop"
        /\ enc'.px_pos > enc.px_pos
        /\ enc'.px_prev.a # enc.px_prev.a) =>
          LET px   == enc'.px_prev
              slot == (px.r * 3 + px.g * 5 + px.b * 7 + px.a * 11) % 64
          IN  IF enc.index[slot] = px
              THEN C11_Chunk = << slot >>
              ELSE C11_Chunk = <<255, px.r, px.g, px.b, px.a>>]_vars

\* the pixel (1,1,1,0) after opaque black, one step away in each colour
\* channel, has been written as the chunk FF 01 01 01 00
C11_Witness ==
    /\ pc = "decode"
    /\ SubSeq(data, 5, 12) = <<0, 0, 0, 255, 1, 1, 1, 0>>
    /\ SubSeq(bytes, out_len - 12, out_len - 8) = <<255, 1, 1, 1, 0>>

\* the run chunks of n pixels equal to the previous pixel
C12_RunChunks(n) ==
    [i \in 1..(n \div 62) |-> 253]
      \o (IF n % 62 > 0 THEN << 192 + (n % 62) - 1 >> ELSE << >>)

\* pixel i of the input, and the pixel before it (all zero before the first)
C12_Pixel(i) == SubSeq(data, (i - 1) * desc.channels + 1, i * desc.channels)
C12_Prev(i) ==
    IF i = 1 THEN [k \in 1..desc.channels |-> 0] ELSE C12_Pixel(i - 1)

\* the number of consecutive input pixels from pixel i on that equal q
RECURSIVE C12_Same(_, _)
C12_Same(i, q) ==
    IF i <= desc.width * desc.height /\ C12_Pixel(i) = q
    THEN 1 + C12_Same(i + 1, q)
    ELSE 0

\* the length of a chunk that is not a run chunk, by its tag
C12_ChunkLen(tag) ==
    IF tag = 255 THEN 5
    ELSE IF tag = 254 THEN 4
    ELSE IF tag \in 128..191 THEN 2
    ELSE 1

\* from pixel i and stream offset p on: every maximal block of n pixels
\* equal to the pixel before the block is written as C12_RunChunks(n), every
\* other pixel as one chunk that is not a run chunk, and the chunks end
\* where the padding begins
RECURSIVE C12_RunsAt(_, _)
C12_RunsAt(i, p) ==
    IF i > desc.width * desc.height THEN p = out_len - 8
    ELSE LET n  == C12_Same(i, C12_Prev(i))
             rc == C12_RunChunks(n)
         IN  IF n > 0
             THEN /\ SubSeq(bytes, p + 1, p + Len(rc)) = rc
                  /\ C12_RunsAt(i + n, p + Len(rc))
             ELSE /\ bytes[p + 1] \notin 192..253
                  /\ C12_RunsAt(i + 1, p + C12_ChunkLen(bytes[p + 1]))

\* C12: run splitting.  An iteration whose pixel equals the previous pixel
\* and is the 62nd of its run writes the one byte FD and resets run to 0;
\* any other such iteration before the last pixel writes nothing and adds 1
\* to run, so the pixel after a full run starts a new run with run = 1.
\* In the encoded stream every block of n pixels equal to the pixel before
\* the block is floor(n/62) chunks FD followed, if n mod 62 > 0, by one run
\* chunk of value (n mod 62) - 1.
C12_RunSplitting ==
    /\ [](pc = "decode" => C12_RunsAt(1, 14))
    /\ [][(/\ pc = "enc_loop"
           /\ enc'.px_pos > enc.px_pos
           /\ enc'.px_prev = enc.px_prev) =>
             IF enc.run = 61
             THEN bytes' = Append(bytes, 253) /\ enc'.run = 0
             ELSE enc.px_pos # enc.px_end =>
                    bytes' = bytes /\ enc'.run = enc.run + 1]_vars

\* 125 zero pixels have been written as the chunks FD FD C0
C12_Witness ==
    /\ pc = "decode"
    /\ desc.width = 125
    /\ out_len = 14 + 3 + 8
    /\ SubSeq(bytes, 15, 17) = <<253, 253, 192>>

\* the last n pixels written, each as its sequence of bytes
C13_LastPixels(n) ==
    { SubSeq(pixels, Len(pixels) - i * dec.channels + 1,
             Len(pixels) - (i - 1) * dec.channels) : i \in 1..n }

\* C13: decoder run state machine.  An iteration that reads a RUN chunk of
\* value k leaves the pixel unchanged, writes it and sets run to k.  An
\* iteration that starts with run > 0 reads no byte, leaves the pixel
\* unchanged, writes it and subtracts 1 from run; a chunk is read only in an
\* iteration that starts with run = 0.  While run = j > 0 the last chunk
\* read is a RUN chunk of some value k >= j and the last k - j + 1 pixels
\* written are the current pixel, so the chunk yields k + 1 equal pixels
\* unless the image ends first.
C13_RunStateMachine ==
    /\ []((pc \in {"dec_loop", "done"} /\ dec.run > 0) =>
            LET k == bytes[dec.p] - 192
            IN  /\ bytes[dec.p] \in 192..253
                /\ k >= dec.run
                /\ C13_LastPixels(k - dec.run + 1)
                     = { WritePixel(dec.px, dec.channels) })
    /\ [][(pc = "dec_loop" /\ dec'.px_pos > dec.px_pos) =>
            /\ (/\ dec.run = 0
                /\ dec.p < dec.chunks_len
                /\ bytes[dec.p + 1] \in 192..253) =>
                    /\ dec'.run = bytes[dec.p + 1] - 192
                    /\ dec'.p = dec.p + 1
                    /\ dec'.px = dec.px
                    /\ pixels' = pixels \o WritePixel(dec.px, dec.channels)
            /\ dec.run > 0 =>
                    /\ dec'.run = dec.run - 1
                    /\ dec'.p = dec.p
                    /\ dec'.px = dec.px
                    /\ pixels' = pixels \o WritePixel(dec.px, dec.channels)
            /\ dec'.p > dec.p => dec.run = 0]_vars

\* a RUN chunk of value 2 read after a pixel that is not zero: two of its
\* three pixels are written and one is pending
C13_Witness ==
    /\ pc = "dec_loop"
    /\ dec.run = 1
    /\ bytes[dec.p] = 194
    /\ dec.px # ZeroPx
    /\ dec.px_pos >= 3 * dec.channels

\* C14: decoder index consistency.  At the end of every iteration of the
\* decode loop (and before the first) the index slot
\* (r*3 + g*5 + b*7 + a*11) mod 64 of the current pixel holds the current
\* pixel; an iteration that reads a RUN chunk leaves the index as it was.
C14_IndexConsistent ==
    /\ [](pc \in {"dec_loop", "done"} =>
            dec.index[(dec.px.r * 3 + dec.px.g * 5 + dec.px.b * 7
                       + dec.px.a * 11) % 64] = dec.px)
    /\ [][(/\ pc = "dec_loop"
           /\ dec'.px_pos > dec.px_pos
           /\ dec.run = 0
           /\ dec.p < dec.chunks_len
           /\ bytes[dec.p + 1] \in 192..253) => dec'.index = dec.index]_vars

\* a RUN chunk has just been read after the pixel (1,1,1,0) of a DIFF
\* chunk, and slot 15 holds that pixel
C14_Witness ==
    /\ pc = "dec_loop"
    /\ dec.run = 2
    /\ bytes[dec.p] = 194
    /\ dec.px = [r |-> 1, g |-> 1, b |-> 1, a |-> 0]
    /\ dec.index[15] = dec.px

\* C15: output size bound.  For the images of the model, whose sizes do not
\* wrap, the number of bytes written never exceeds
\* width * height * (channels + 1) + 14 + 8, the size of the buffer
\* allocated: at every point of the encoding loop, where the write cursor p
\* is the number of bytes written, and after the padding, where it is
\* out_len.
C15_OutputBound ==
    /\ pc = "enc_loop" =>
         /\ enc.p = Len(bytes)
         /\ enc.p <= desc.width * desc.height * (desc.channels + 1) + 14 + 8
         /\ enc.p <= enc.max_size
    /\ pc = "decode" =>
         /\ out_len = Len(bytes)
         /\ out_len <= desc.width * desc.height * (desc.channels + 1) + 14 + 8
         /\ out_len <= enc.max_size

\* the second pixel of a 2-pixel image has cost six bytes, the flush C0 of
\* the pending run and a 5-byte RGBA chunk, and the output is within the
\* bound of 32 bytes
C15_Witness ==
    /\ pc = "decode"
    /\ desc.width * desc.height = 2
    /\ desc.channels = 4
    /\ bytes[15] = 192
    /\ bytes[16] = 255
    /\ out_len = 14 + 6 + 8

\* the number of iterations of the loop of line 398
C16_Iterations ==
    IF enc.px_len <= 0 THEN 0
    ELSE (enc.px_len + enc.channels - 1) \div enc.channels

\* n = w * h in the integers, for w, h, n below 2^31
C16_IsProduct(w, h, n) ==
    IF w = 0 THEN n = 0 ELSE n % w = 0 /\ n \div w = h

\* C16: wrapped size arithmetic.  For every accepted descriptor, once the
\* buffer is allocated and the loop is entered, the loop visits
\* width * height pixels, and max_size is at least the number of bytes
\* written, which is not below 14 + 8 and one byte for every 62 pixels
\* visited.
C16_SizesDoNotWrap ==
    pc = "enc_loop" =>
        /\ C16_IsProduct(desc.width, desc.height, C16_Iterations)
        /\ enc.max_size >= 14 + ((C16_Iterations + 61) \div 62) + 8

\* C17: no truncation on a well-formed stream.  While qoi_decode decodes the
\* output of qoi_encode, every iteration that starts with run = 0 finds the
\* read cursor p below size - 8 and so reads a chunk; when the loop has
\* ended, p = size - 8 and run = 0.
C17_NoTruncation ==
    /\ [][(/\ pc = "dec_loop"
           /\ dec'.px_pos > dec.px_pos
           /\ dec.run = 0) =>
             /\ dec.p < size - 8
             /\ dec'.p > dec.p]_vars
    /\ [](pc = "done" => dec.p = size - 8 /\ dec.run = 0)

\* the decoder has consumed a stream of 63 pixels that ends in a run chunk
C17_Witness ==
    /\ pc = "done"
    /\ desc.width = 63
    /\ bytes[size - 8] \in 192..253
    /\ dec.p = size - 8
    /\ dec.run = 0
    /\ Len(pixels) = 63 * dec.channels

\* the number of bytes the decoder reads for a chunk with the given tag
C18_BytesRead(tag) ==
    IF tag = 255 THEN 5
    ELSE IF tag = 254 THEN 4
    ELSE IF tag \in 128..191 THEN 2
    ELSE 1

\* C18: decoder read bounds.  Once the arguments are accepted the 14 header
\* bytes lie inside the input of size bytes.  Whenever an iteration is about
\* to read a chunk, the chunk starts at an offset p with 14 <= p < size - 8
\* and its last byte, at offset p + n - 1 for a chunk of n bytes, is below
\* size: a chunk that starts just before the padding ends inside it.
C18_ReadBounds ==
    /\ pc \in {"dec_badheader", "dec_nomem", "dec_loop", "done"} =>
         /\ 14 <= size
         /\ dec.p >= 0
    /\ (/\ pc = "dec_loop"
        /\ dec.px_pos < dec.px_len
        /\ dec.run = 0
        /\ dec.p < dec.chunks_len) =>
          /\ 14 <= dec.p
          /\ dec.p < size - 8
          /\ dec.p + C18_BytesRead(bytes[dec.p + 1]) - 1 < size
    /\ pc \in {"dec_loop", "done"} => dec.p <= size - 8 + 4

\* an RGBA chunk that starts at offset size - 9, the last one before the
\* padding, has been read: its four value bytes are padding bytes
C18_Witness ==
    /\ pc = "dec_loop"
    /\ bytes[size - 8] = 255
    /\ dec.p = size - 4
    /\ Len(bytes) = size

\* the locals of qoi_encode after i iterations of its loop on the input
RECURSIVE C19_EncAfter(_)
C19_EncAfter(i) ==
    IF i = 0 THEN EncStart(desc)
    ELSE EncodeStep(data, C19_EncAfter(i - 1)).enc

\* C19: predictor lockstep.  While qoi_decode decodes the output of
\* qoi_encode, after i iterations of the decode loop the decoder's pixel is
\* the encoder's previous pixel after i iterations of the encode loop, in
\* all four components, and the decoder's index is the encoder's index,
\* slot for slot.
C19_Lockstep ==
    pc \in {"dec_loop", "done"} =>
        LET e == C19_EncAfter(dec.px_pos \div dec.channels)
        IN  /\ e.px_prev = dec.px
            /\ e.index = dec.index

\* in the middle of a 3-channel image decoded into 4 channels both sides
\* hold the same pixel, with alpha 0, and the same index with that pixel in
\* its slot
C19_Witness ==
    /\ pc = "dec_loop"
    /\ desc.channels = 3
    /\ dec.channels = 4
    /\ dec.px_pos = 2 * 4
    /\ dec.px = [r |-> 10, g |-> 20, b |-> 30, a |-> 0]
    /\ C19_EncAfter(2).px_prev = dec.px
    /\ C19_EncAfter(2).index = dec.index
    /\ dec.index[(10 * 3 + 20 * 5 + 30 * 7) % 64] = dec.px

\* C20: descriptor written only on success.  When qoi_decode has failed, on
\* its arguments, on the header or on the allocation, the caller's
\* descriptor holds the values it held before the call.
C20_DescOnlyOnSuccess ==
    pc \in {"dec_invalid", "dec_badheader", "dec_nomem"} => ddesc = DescBefore

====
